---- MODULE Spec2Model ----
(***************************************************************************)
(* Model of the rule layer of the dice game (src/src/game.rs, state.rs).  *)
(* DiceGame is a unit struct: the program keeps no fields.  The state of  *)
(* the model is the most recent call (operation, arguments, the local     *)
(* index of a message picker, returned value) and one remembered earlier  *)
(* predicate call, which is what two calls with the same arguments are    *)
(* compared through.                                                       *)
(* The Cyrillic/emoji string literals of the source are written in ASCII  *)
(* transliteration; distinct literals stay distinct.                      *)
(***************************************************************************)
EXTENDS Integers, Sequences, FiniteSets, TLC

VARIABLES op, args, index, result, prev

vars == <<op, args, index, result, prev>>

\* ---- bounds -------------------------------------------------------------
\* largest die / guess value a caller supplies (values above 6 are included)
MaxDie == 8
\* how far below zero the integers a caller might want to pass extend
NegSpan == 2

\* ---- types of the source ------------------------------------------------
\* u8: the type of dice_result, user_guess, bot_dice and user_dice
U8Max == 255
U8 == 0..U8Max

EvenOddChoice == {"Even", "Odd"}
HighLowChoice == {"High", "Low"}
GuessOneChoice == {"Yes", "No"}

\* integers a caller may hold, and the ones among them that are u8 values
IntInputs == (0 - NegSpan)..MaxDie
DieInputs == IntInputs \cap U8
\* the faces of a six-sided die
DieFaces == 1..6

\* ---- pure functions -----------------------------------------------------
check_even_odd_swapped(dice_result, user_choice) ==
    LET is_even == dice_result % 2 = 0
    IN  CASE user_choice = "Even" -> ~is_even
          [] user_choice = "Odd"  -> is_even

check_even_odd_normalized(dice_result, user_choice) ==
    LET d == IF dice_result < 1 THEN 1 ELSE IF dice_result > 6 THEN 6 ELSE dice_result
        is_even == d % 2 = 0
    IN  CASE user_choice = "Even" -> is_even
          [] user_choice = "Odd"  -> ~is_even

check_even_odd(dice_result, user_choice) ==
    LET is_even == dice_result % 2 = 0
    IN  CASE user_choice = "Even" -> is_even
          [] user_choice = "Odd"  -> ~is_even

check_high_low_midpoint(dice_result, user_choice) ==
    CASE user_choice = "High" -> dice_result > 4
      [] user_choice = "Low"  -> dice_result <= 3

check_high_low_validated(dice_result, user_choice) ==
    CASE user_choice = "High" -> dice_result >= 4 /\ dice_result <= 6
      [] user_choice = "Low"  -> dice_result <= 3 /\ dice_result >= 1

check_high_low(dice_result, user_choice) ==
    CASE user_choice = "High" -> dice_result >= 4
      [] user_choice = "Low"  -> dice_result <= 3

check_exact_number_at_least(dice_result, user_guess) ==
    dice_result >= user_guess

check_exact_number(dice_result, user_guess) ==
    dice_result = user_guess

check_guess_one_six(dice_result, user_choice) ==
    LET is_one == dice_result = 6
    IN  CASE user_choice = "Yes" -> is_one
          [] user_choice = "No"  -> ~is_one

\* a variant with hidden state: the answer depends on the call made before
check_guess_one_stateful(dice_result, user_choice) ==
    LET is_one == IF op = "win_message" THEN TRUE ELSE dice_result = 1
    IN  CASE user_choice = "Yes" -> is_one
          [] user_choice = "No"  -> ~is_one

check_guess_one(dice_result, user_choice) ==
    LET is_one == dice_result = 1
    IN  CASE user_choice = "Yes" -> is_one
          [] user_choice = "No"  -> ~is_one

BotWins == "[robot] Kompyuter pobedil!"
UserWins == "[party] Polzovatel pobedil!"
Tie == "[handshake] Nichya!"

compare_dices_non_strict(bot_dice, user_dice) ==
    IF bot_dice >= user_dice THEN BotWins
    ELSE IF user_dice > bot_dice THEN UserWins
    ELSE Tie

compare_dices(bot_dice, user_dice) ==
    IF bot_dice > user_dice THEN BotWins
    ELSE IF user_dice > bot_dice THEN UserWins
    ELSE Tie

win_messages ==
    << "[party] Pozdravlyayu! Vy ugadali!",
       "[confetti] Otlichno! Pravilnyy otvet!",
       "[sparkles] Velikolepno! Vy pobedili!",
       "[trophy] Bravo! Tochnoe popadanie!",
       "[target] Prevoskhodno! Vy ugadali!" >>

lose_messages ==
    << "[pensive] Ne ugadali, no ne rasstraivaytes!",
       "[die] V etot raz ne povezlo, poprobuyte eshche!",
       "[muscle] Nichego strashnogo, udacha ulybnetsya v sleduyushchiy raz!",
       "[star] Ne perezhivayte, u vas vse poluchitsya!",
       "[gamepad] Popytka ne pytka, igraem eshche!" >>

\* rng.gen_range(low..high): any value of the half-open range
gen_range_inclusive(low, high) == low..high

gen_range_short(low, high) == low..(high - 2)

gen_range(low, high) == low..(high - 1)

\* messages[index] on a Rust array: zero-based, panics out of bounds
Panic == "panic: index out of bounds"
ArrayIndex(messages, i) ==
    IF i >= 0 /\ i < Len(messages) THEN messages[i + 1] ELSE Panic

\* ---- the calls ------------------------------------------------------------
Predicates ==
    {"check_even_odd", "check_high_low", "check_exact_number", "check_guess_one"}

NoCall == [op |-> "none", args |-> <<>>, result |-> "none"]

\* the earlier call kept for comparison: the one already kept, or the call
\* that was the most recent one before this step, if it was a predicate call
Remember ==
    IF op \in Predicates
    THEN {prev, [op |-> op, args |-> args, result |-> result]}
    ELSE {prev}

Return(o, a, i, r) ==
    /\ op' = o
    /\ args' = a
    /\ index' = i
    /\ result' = r
    /\ prev' \in Remember

CallCheckEvenOdd(d, c) ==
    /\ d \in U8
    /\ c \in EvenOddChoice
    /\ Return("check_even_odd", <<d, c>>, <<>>, check_even_odd(d, c))

CallCheckHighLow(d, c) ==
    /\ d \in U8
    /\ c \in HighLowChoice
    /\ Return("check_high_low", <<d, c>>, <<>>, check_high_low(d, c))

CallCheckExactNumber(d, g) ==
    /\ d \in U8
    /\ g \in U8
    /\ Return("check_exact_number", <<d, g>>, <<>>, check_exact_number(d, g))

CallCheckGuessOne(d, c) ==
    /\ d \in U8
    /\ c \in GuessOneChoice
    /\ Return("check_guess_one", <<d, c>>, <<>>, check_guess_one(d, c))

CallCompareDices(b, u) ==
    /\ b \in U8
    /\ u \in U8
    /\ Return("compare_dices", <<b, u>>, <<>>, compare_dices(b, u))

\* win_message() when the random source yields i
WinMessageDraw(i) ==
    /\ i \in gen_range(0, Len(win_messages))
    /\ Return("win_message", <<>>, <<i>>, ArrayIndex(win_messages, i))

\* lose_message() when the random source yields i
LoseMessageDraw(i) ==
    /\ i \in gen_range(0, Len(lose_messages))
    /\ Return("lose_message", <<>>, <<i>>, ArrayIndex(lose_messages, i))

\* every value an index draw could be asked to take in this model
Draws == 0..Len(win_messages)

CheckEvenOdd == \E d \in IntInputs, c \in EvenOddChoice : CallCheckEvenOdd(d, c)
CheckHighLow == \E d \in IntInputs, c \in HighLowChoice : CallCheckHighLow(d, c)
CheckExactNumber == \E d \in IntInputs, g \in IntInputs : CallCheckExactNumber(d, g)
CheckGuessOne == \E d \in IntInputs, c \in GuessOneChoice : CallCheckGuessOne(d, c)
CompareDices == \E b \in IntInputs, u \in IntInputs : CallCompareDices(b, u)
WinMessage == \E i \in Draws : WinMessageDraw(i)
LoseMessage == \E i \in Draws : LoseMessageDraw(i)

Init ==
    /\ op = "none"
    /\ args = <<>>
    /\ index = <<>>
    /\ result = "none"
    /\ prev = NoCall

Next ==
    \/ CheckEvenOdd
    \/ CheckHighLow
    \/ CheckExactNumber
    \/ CheckGuessOne
    \/ CompareDices
    \/ WinMessage
    \/ LoseMessage

Spec == Init /\ [][Next]_vars

\* the message pickers called between predicate calls, under a fair random
\* source: a value the source can yield is not withheld forever
PickerNext ==
    \/ CheckGuessOne
    \/ WinMessage
    \/ LoseMessage

FairSpec ==
    /\ Init
    /\ [][PickerNext]_vars
    /\ \A i \in Draws : WF_vars(WinMessageDraw(i)) /\ WF_vars(LoseMessageDraw(i))

\* ---- properties ------------------------------------------------------------
\* the choice a player did not make
OtherChoice(c) ==
    CASE c = "Even" -> "Odd"
      [] c = "Odd"  -> "Even"
      [] c = "High" -> "Low"
      [] c = "Low"  -> "High"
      [] c = "Yes"  -> "No"
      [] c = "No"   -> "Yes"

\* C1: for a die value in 1..6, check_even_odd returns TRUE for Even exactly
\* when the value is even and for Odd exactly when it is odd, so exactly one
\* of the two choices wins.
C1_EvenOdd ==
    (op = "check_even_odd" /\ args[1] \in DieFaces) =>
        /\ args[2] = "Even" => (result <=> args[1] % 2 = 0)
        /\ args[2] = "Odd" => (result <=> args[1] % 2 # 0)
        /\ result # check_even_odd(args[1], OtherChoice(args[2]))

C1_Witness ==
    op = "check_even_odd" /\ args = <<5, "Odd">> /\ result = TRUE

\* C2: for a die value in 1..6, check_high_low returns TRUE for High exactly
\* when the value is at least 4 and for Low exactly when it is at most 3, and
\* the Low answer is the negation of the High answer.
C2_HighLow ==
    (op = "check_high_low" /\ args[1] \in DieFaces) =>
        /\ args[2] = "High" => (result <=> args[1] >= 4)
        /\ args[2] = "Low" => (result <=> args[1] <= 3)
        /\ check_high_low(args[1], "Low") = ~check_high_low(args[1], "High")

C2_Witness ==
    op = "check_high_low" /\ args = <<4, "High">> /\ result = TRUE

\* C3: for a die value in 1..6 and any guess, check_exact_number is TRUE when
\* the guess equals the die value and FALSE for every other guess, guesses
\* outside 1..6 included.
C3_ExactNumber ==
    (op = "check_exact_number" /\ args[1] \in DieFaces) =>
        /\ args[2] = args[1] => result = TRUE
        /\ args[2] # args[1] => result = FALSE

C3_Witness ==
    op = "check_exact_number" /\ args = <<3, 7>> /\ result = FALSE

\* C4: for a die value in 1..6, check_guess_one returns TRUE for Yes exactly
\* when the value is 1 and for No exactly when it is not 1.
C4_GuessOne ==
    (op = "check_guess_one" /\ args[1] \in DieFaces) =>
        /\ args[2] = "Yes" => (result <=> args[1] = 1)
        /\ args[2] = "No" => (result <=> args[1] # 1)

C4_Witness ==
    op = "check_guess_one" /\ args = <<6, "No">> /\ result = TRUE

\* the tag naming the other side as the winner
Swapped(tag) ==
    CASE tag = BotWins -> UserWins
      [] tag = UserWins -> BotWins
      [] tag = Tie -> Tie

\* C5: compare_dices returns one of three fixed tags: the computer tag
\* exactly when the first value is greater, the user tag exactly when the
\* second is greater, the tie tag exactly when they are equal; with the
\* arguments exchanged the winner is exchanged, and a tie stays a tie.
C5_CompareDices ==
    op = "compare_dices" =>
        /\ result \in {BotWins, UserWins, Tie}
        /\ Cardinality({BotWins, UserWins, Tie}) = 3
        /\ result = BotWins <=> args[1] > args[2]
        /\ result = UserWins <=> args[2] > args[1]
        /\ result = Tie <=> args[1] = args[2]
        /\ compare_dices(args[2], args[1]) = Swapped(result)

C5_Witness ==
    op = "compare_dices" /\ args = <<3, 3>> /\ result = Tie

WinSet == {win_messages[k] : k \in 1..Len(win_messages)}
LoseSet == {lose_messages[k] : k \in 1..Len(lose_messages)}

\* C6: every value win_message returns is one of its five strings, every
\* value lose_message returns is one of its five strings, the two sets are
\* disjoint, and the index drawn is always within the array.
C6_MessageSets ==
    /\ Cardinality(WinSet) = 5
    /\ Cardinality(LoseSet) = 5
    /\ WinSet \cap LoseSet = {}
    /\ op = "win_message" =>
          /\ result \in WinSet
          /\ result \notin LoseSet
          /\ index[1] >= 0 /\ index[1] < Len(win_messages)
    /\ op = "lose_message" =>
          /\ result \in LoseSet
          /\ result \notin WinSet
          /\ index[1] >= 0 /\ index[1] < Len(lose_messages)

C6_Witness ==
    op = "lose_message" /\ index = <<4>> /\ result = lose_messages[5]

\* C7: whatever the earlier calls returned, the next call of win_message and
\* of lose_message can return any of the five strings (the one just returned
\* included), and under a fair random source each of the five strings of
\* each picker is eventually returned.
C7_IndependentDraws ==
    /\ [](\A i \in 0..4 : ENABLED WinMessageDraw(i) /\ ENABLED LoseMessageDraw(i))
    /\ \A k \in 1..5 : <>(op = "win_message" /\ result = win_messages[k])
    /\ \A k \in 1..5 : <>(op = "lose_message" /\ result = lose_messages[k])

C7_Witness ==
    /\ op = "win_message" /\ index = <<4>> /\ result = win_messages[5]
    /\ ENABLED WinMessageDraw(4)

LiteralRule ==
    /\ op = "check_even_odd" =>
          result = (IF args[2] = "Even" THEN args[1] % 2 = 0 ELSE args[1] % 2 # 0)
    /\ op = "check_high_low" =>
          result = (IF args[2] = "High" THEN args[1] >= 4 ELSE args[1] <= 3)
    /\ op = "check_exact_number" => result = (args[1] = args[2])
    /\ op = "check_guess_one" =>
          result = (IF args[2] = "Yes" THEN args[1] = 1 ELSE args[1] # 1)

Accepts(d) ==
    /\ \A c \in EvenOddChoice : ENABLED CallCheckEvenOdd(d, c)
    /\ \A c \in HighLowChoice : ENABLED CallCheckHighLow(d, c)
    /\ \A c \in GuessOneChoice : ENABLED CallCheckGuessOne(d, c)
    /\ \A g \in DieInputs : ENABLED CallCheckExactNumber(d, g)

\* C9 as stated: every integer die value, negative ones included, is
\* accepted by every check predicate and answered by the literal rule.
C9_AnyInteger ==
    /\ \A d \in IntInputs : Accepts(d)
    /\ LiteralRule

\* C9 as amended: every die value of type u8, zero and values above 6
\* included, is accepted by every check predicate and answered by the
\* literal rule on the value as passed; a die value is never negative.
C9_AnyU8 ==
    /\ \A d \in DieInputs : Accepts(d)
    /\ op \in Predicates => args[1] \in U8
    /\ LiteralRule

C9_Witness ==
    op = "check_even_odd" /\ args = <<0, "Even">> /\ result = TRUE

\* C10 as stated: some die value outside 1..6 makes the High and the Low
\* answer of check_high_low both true or both false.
C10_NotComplementary ==
    \E d \in DieInputs \ DieFaces : \E r \in BOOLEAN :
        /\ ENABLED (CallCheckHighLow(d, "High") /\ result' = r)
        /\ ENABLED (CallCheckHighLow(d, "Low") /\ result' = r)

\* C10 as amended: for a die value outside 1..6 too, exactly one of the High
\* and the Low answer of check_high_low is true.
C10_Complementary ==
    (op = "check_high_low" /\ args[1] \notin DieFaces) =>
        /\ result # check_high_low(args[1], OtherChoice(args[2]))
        /\ (prev.op = "check_high_low" /\ prev.args[1] = args[1]
              /\ prev.args[2] = OtherChoice(args[2])) => prev.result # result

C10_Witness ==
    /\ op = "check_high_low" /\ args = <<7, "Low">> /\ result = FALSE
    /\ prev = [op |-> "check_high_low", args |-> <<7, "High">>, result |-> TRUE]

====
